---- MODULE Spec2Model ----
(***************************************************************************)
(* Digital Circular Passport (src/main.py): a session-authenticated web    *)
(* application over three PostgreSQL tables (users, activities,            *)
(* completions).  Strings are sequences of one-character strings, so that  *)
(* trimming, lower-casing, zero-padding and the QR format check are        *)
(* computed character by character, as the code computes them.             *)
(***************************************************************************)
EXTENDS Integers, Sequences, FiniteSets, Bags, TLC

VARIABLES
    tables,       \* TRUE once init_db has created the tables
    users,        \* committed rows of table users
    usersSeq,     \* last value handed out by users.id SERIAL
    activities,   \* committed rows of table activities, code |-> title
    completions,  \* committed rows of table completions
    compSeq,      \* last value handed out by completions.id SERIAL
    clock,        \* number of datetime.utcnow() readings taken so far
    session,      \* request.session["user_id"] of each browser (None = absent)
    pc,           \* the statement each browser's request in flight is about to execute
    req,          \* the local variables of each browser's request in flight
    uncommitted,  \* rows the open transaction of each request has inserted
    resp,         \* the response sent by the step just taken (NoResp: none)
    lastScan,     \* history: per user, code and count of the last successful scan
    regId,        \* history: per mailbox, the user id the last register bound
    addedLog,     \* history: bag of the (user, code) pairs reported "added": true
    qrIn,         \* argument of the valid_qr call under test
    qrEdits,      \* number of characters edited in qrIn so far
    qrOut         \* its result

vars == <<tables, users, usersSeq, activities, completions, compSeq, clock,
          session, pc, req, uncommitted, resp, lastScan, regId, addedLog,
          qrIn, qrEdits, qrOut>>

dbVars == <<tables, users, usersSeq, activities, completions, compSeq, clock>>
qrVars == <<qrIn, qrEdits, qrOut>>
histVars == <<lastScan, regId, addedLog>>

----------------------------------------------------------------------------
(* Program constants *)

TOTAL_ACTIVITIES == 50
QR_PREFIX == <<"C", "F", "2", "6", "-">>
None == 0

(* Bounds of the model *)

MaxClock == 4      \* utcnow() readings (one per INSERT of a user or completion)
MaxEdits == 2      \* characters edited in a QR string under test

Browsers == {"b1", "b2"}
UserIds == 1..MaxClock
Mailboxes == {"a", "b"}

----------------------------------------------------------------------------
(* Strings *)

DigitChars == <<"0", "1", "2", "3", "4", "5", "6", "7", "8", "9">>
UpperChars == <<"A", "B", "C", "D", "E", "F", "G", "H", "I", "J", "K", "L", "M",
                "N", "O", "P", "Q", "R", "S", "T", "U", "V", "W", "X", "Y", "Z">>
LowerChars == <<"a", "b", "c", "d", "e", "f", "g", "h", "i", "j", "k", "l", "m",
                "n", "o", "p", "q", "r", "s", "t", "u", "v", "w", "x", "y", "z">>

\* str.isspace() on the characters of the model's alphabet
IsSpace(ch) == ch \in {" ", "\t", "\n", "\r", "\f"}

\* the regular expression class \d on the characters of the model's alphabet
IsDigit(ch) == \E i \in 1..10 : DigitChars[i] = ch

RECURSIVE lstrip(_)
lstrip(s) == IF s # <<>> /\ IsSpace(Head(s)) THEN lstrip(Tail(s)) ELSE s

RECURSIVE rstrip(_)
rstrip(s) ==
    IF s # <<>> /\ IsSpace(s[Len(s)]) THEN rstrip(SubSeq(s, 1, Len(s) - 1)) ELSE s

\* str.strip()
strip(s) == rstrip(lstrip(s))

LowerChar(ch) ==
    IF \E i \in 1..26 : UpperChars[i] = ch
    THEN LowerChars[CHOOSE i \in 1..26 : UpperChars[i] = ch]
    ELSE ch

\* lower() left out: the address is stored as typed
lower_Identity(s) == s

\* str.lower()
lower(s) == [i \in 1..Len(s) |-> LowerChar(s[i])]

\* str(i) for i >= 0
RECURSIVE str(_)
str(i) == IF i < 10 THEN <<DigitChars[i + 1]>>
          ELSE str(i \div 10) \o <<DigitChars[(i % 10) + 1]>>

\* str.zfill(width)
RECURSIVE zfill(_, _)
zfill(s, width) == IF Len(s) >= width THEN s ELSE zfill(<<"0">> \o s, width)

\* str.startswith(prefix)
startswith(s, prefix) ==
    Len(s) >= Len(prefix) /\ SubSeq(s, 1, Len(prefix)) = prefix

\* the anchor $ of re.match at position i (1-based, the next character to read):
\* the end of the string, or just before a newline that ends the string
AtDollar(s, i) == i = Len(s) + 1 \/ (i = Len(s) /\ s[i] = "\n")

\* re.match(r"A\d{2}$", s)
ReMatchSuffix(s) ==
    /\ Len(s) >= 3
    /\ s[1] = "A"
    /\ IsDigit(s[2])
    /\ IsDigit(s[3])
    /\ AtDollar(s, 4)

\* the startswith(QR_PREFIX) test left out
valid_qr_NoPrefix(code) ==
    ReMatchSuffix(SubSeq(code, Len(QR_PREFIX) + 1, Len(code)))

valid_qr(code) ==
    IF ~startswith(code, QR_PREFIX) THEN FALSE
    ELSE ReMatchSuffix(SubSeq(code, Len(QR_PREFIX) + 1, Len(code)))

----------------------------------------------------------------------------
(* Request inputs *)

\* POST /register form fields
Forms == { [name |-> <<"A", "n", "n">>,      email |-> <<"a", "@", "x">>],
           [name |-> <<" ", "B", "o", " ">>, email |-> <<" ", "A", "@", "X", "\n">>],
           [name |-> <<"A", "n", "n">>,      email |-> <<"b", "@", "x">>] }

\* POST /api/scan form field
RawCodes == { <<"C", "F", "2", "6", "-", "A", "0", "1">>,
              <<" ", "C", "F", "2", "6", "-", "A", "5", "0", "\n">>,
              <<"C", "F", "2", "6", "-", "A", "9", "9">>,
              <<"C", "F", "2", "6", "-", "A", "0", "0">>,
              <<"C", "F", "2", "6", "-", "A", "7">>,
              <<"c", "f", "2", "6", "-", "a", "0", "1">>,
              <<"C", "F", "2", "6", "-", "A", "0", "1", " ", "1">>,
              <<"X", "F", "2", "6", "-", "A", "0", "1">> }

\* the requests that are made to race in the interleaved specification
RaceForms == {f \in Forms : f.email # <<"b", "@", "x">>}
RaceCodes == { <<"C", "F", "2", "6", "-", "A", "0", "1">>,
               <<" ", "C", "F", "2", "6", "-", "A", "5", "0", "\n">>,
               <<"C", "F", "2", "6", "-", "A", "9", "9">>,
               <<"C", "F", "2", "6", "-", "A", "7">> }

\* the mailbox an address as typed belongs to (for the history variable regId)
Mailbox(rawEmail) ==
    IF rawEmail \in {<<"a", "@", "x">>, <<" ", "A", "@", "X", "\n">>} THEN "a" ELSE "b"

\* the form fields that arrive, and what the handlers compute from each of them
FormFields == RawCodes \cup {f.name : f \in Forms} \cup {f.email : f \in Forms}

\* field.strip()
Stripped == [s \in FormFields |-> strip(s)]

\* email.strip().lower()
Lowered == [s \in {f.email : f \in Forms} |-> lower(Stripped[s])]

\* valid_qr(code.strip())
ValidQr == [s \in RawCodes |-> valid_qr(Stripped[s])]

----------------------------------------------------------------------------
(* Responses *)

NoResp == [route |-> "", status |-> 0, kind |-> "none", ok |-> FALSE,
           added |-> FALSE, count |-> 0, total |-> 0, text |-> ""]

\* the startup hook returned without raising: the server starts to serve
Started == [NoResp EXCEPT !.kind = "startup"]

\* the startup hook raised: the process fails to start
StartupFailed == [NoResp EXCEPT !.kind = "startup", !.status = 500]

\* raise HTTPException(status_code=...), or an uncaught exception (500)
HttpError(route, status) ==
    [NoResp EXCEPT !.route = route, !.status = status, !.kind = "exception"]

\* JSONResponse({"ok": False, "error": text}, status_code=status)
JsonError(route, status, text) ==
    [NoResp EXCEPT !.route = route, !.status = status, !.kind = "json",
                   !.text = text]

\* {"ok": True, "added": added, "count": count, "total": TOTAL_ACTIVITIES}
JsonOk(route, added, count) ==
    [NoResp EXCEPT !.route = route, !.status = 200, !.kind = "json", !.ok = TRUE,
                   !.added = added, !.count = count, !.total = TOTAL_ACTIVITIES]

\* RedirectResponse(location, status_code=303)
Redirect(route, location) ==
    [NoResp EXCEPT !.route = route, !.status = 303, !.kind = "redirect",
                   !.text = location]

\* templates.TemplateResponse(template, {...})
Html(route, template) ==
    [NoResp EXCEPT !.route = route, !.status = 200, !.kind = "html",
                   !.text = template]

----------------------------------------------------------------------------
(* The store *)

\* f"CF26-A{str(i).zfill(2)}"
ActivityCode(i) == QR_PREFIX \o <<"A">> \o zfill(str(i), 2)

\* f"Activity {i}"
ActivityTitle(i) == <<"Activity ">> \o str(i)

\* the same INSERT without ON CONFLICT: a second seeding raises
InsertActivity_NoOnConflict(tbl, code, title) ==
    [raised |-> code \in DOMAIN tbl,
     table |-> IF code \in DOMAIN tbl THEN tbl ELSE tbl @@ (code :> title)]

\* INSERT INTO activities (code, title) ... ON CONFLICT (code) DO NOTHING
\* (the table is held by its primary key: code |-> title)
InsertActivity(tbl, code, title) ==
    [raised |-> FALSE,
     table |-> IF code \in DOMAIN tbl THEN tbl ELSE tbl @@ (code :> title)]

\* the (code, title) pairs of the seeding loop, i = 1 .. TOTAL_ACTIVITIES
SeedRows ==
    [i \in 1..TOTAL_ACTIVITIES |-> [code |-> ActivityCode(i), title |-> ActivityTitle(i)]]

\* for i in range(1, n + 1): INSERT ...   (the first exception ends the loop)
RECURSIVE SeedActivities(_, _)
SeedActivities(tbl, n) ==
    IF n = 0 THEN [raised |-> FALSE, table |-> tbl]
    ELSE LET before == SeedActivities(tbl, n - 1)
         IN IF before.raised THEN before
            ELSE InsertActivity(before.table, SeedRows[n].code, SeedRows[n].title)

\* SELECT id FROM users WHERE email=%s
SelectUserByEmail(tbl, email) == {r \in tbl : r.email = email}

\* INSERT INTO users (name, email, created_at) ... RETURNING id
\* The id is drawn from the sequence before UNIQUE(email) is checked, so a
\* failed insert uses up a value too.
InsertUser(tbl, seq, name, email, t) ==
    LET id == seq + 1
        row == [id |-> id, name |-> name, email |-> email, created_at |-> t]
        conflict == \E r \in tbl : r.email = email
    IN [seq |-> id, raised |-> conflict,
        returning |-> IF conflict THEN {} ELSE {row},
        table |-> IF conflict THEN tbl ELSE tbl \cup {row}]

\* the same SELECT without its WHERE clause
SelectActivity_Any(tbl, code) == DOMAIN tbl

\* SELECT code FROM activities WHERE code=%s
SelectActivity(tbl, code) == IF code \in DOMAIN tbl THEN {code} ELSE {}

\* the same INSERT on a table without UNIQUE(user_id, activity_code)
InsertCompletion_NoUnique(tbl, seq, user_id, code, t) ==
    LET row == [id |-> seq + 1, user_id |-> user_id, activity_code |-> code,
                created_at |-> t]
    IN [seq |-> seq + 1, raised |-> FALSE, returning |-> {row},
        table |-> tbl \cup {row}]

\* ON CONFLICT ... DO UPDATE SET created_at instead of DO NOTHING
InsertCompletion_Upsert(tbl, seq, user_id, code, t) ==
    LET old == {r \in tbl : r.user_id = user_id /\ r.activity_code = code}
        row == [id |-> IF old = {} THEN seq + 1 ELSE (CHOOSE r \in old : TRUE).id,
                user_id |-> user_id, activity_code |-> code, created_at |-> t]
    IN [seq |-> seq + 1, raised |-> FALSE, returning |-> {row},
        table |-> (tbl \ old) \cup {row}]

\* INSERT INTO completions ... ON CONFLICT (user_id, activity_code) DO NOTHING
\* RETURNING id
InsertCompletion(tbl, seq, user_id, code, t) ==
    LET id == seq + 1
        row == [id |-> id, user_id |-> user_id, activity_code |-> code,
                created_at |-> t]
        conflict == \E r \in tbl : r.user_id = user_id /\ r.activity_code = code
    IN [seq |-> id, raised |-> FALSE,
        returning |-> IF conflict THEN {} ELSE {row},
        table |-> IF conflict THEN tbl ELSE tbl \cup {row}]

\* SELECT COUNT(*) AS count FROM completions WHERE user_id=%s
CountCompletions(tbl, user_id) == Cardinality({r \in tbl : r.user_id = user_id})

\* An INSERT waits while another open transaction holds an uncommitted row with
\* the same unique key: UNIQUE (email) of users
UserLockWait(b, email) ==
    \E q \in Browsers \ {b} : \E r \in uncommitted[q].users : r.email = email

\* no arbitration between concurrent inserts of the same key
CompletionLockWait_Never(b, user_id, code) == FALSE

\* the same for UNIQUE(user_id, activity_code) of completions
CompletionLockWait(b, user_id, code) ==
    \E q \in Browsers \ {b} : \E r \in uncommitted[q].completions :
        r.user_id = user_id /\ r.activity_code = code

NoRows == [users |-> {}, completions |-> {}]

----------------------------------------------------------------------------
(* Session *)

current_user(b) == session[b]

\* the falsy test left out
require_login_NoCheck(b) == [raised |-> FALSE, user_id |-> current_user(b)]

\* require_login: raises HTTPException(401) when current_user is falsy (None,
\* or 0, which SERIAL never hands out), else returns the user id
require_login(b) ==
    [raised |-> current_user(b) = None, user_id |-> current_user(b)]

IdleReq == [op |-> "none", user_id |-> None, email |-> <<>>, mailbox |-> "",
            name |-> <<>>, code |-> <<>>, added |-> FALSE]

----------------------------------------------------------------------------
InitStore ==
    /\ tables = FALSE
    /\ users = {}
    /\ usersSeq = 0
    /\ activities = <<>>
    /\ completions = {}
    /\ compSeq = 0
    /\ clock = 0
    /\ session = [b \in Browsers |-> None]
    /\ pc = [b \in Browsers |-> "idle"]
    /\ req = [b \in Browsers |-> IdleReq]
    /\ uncommitted = [b \in Browsers |-> NoRows]
    /\ resp = NoResp
    /\ lastScan = [u \in UserIds |-> [code |-> <<>>, count |-> 0]]
    /\ regId = [m \in Mailboxes |-> None]
    /\ addedLog = EmptyBag

Init ==
    /\ InitStore
    /\ qrIn = <<>>
    /\ qrEdits = 0
    /\ qrOut = FALSE

\* startup hook: create the tables if missing, seed the activities, commit; an
\* exception leaves the transaction uncommitted
init_db ==
    /\ LET seeded == SeedActivities(activities, TOTAL_ACTIVITIES)
       IN IF seeded.raised
          THEN /\ resp' = StartupFailed
               /\ UNCHANGED <<tables, activities>>
          ELSE /\ tables' = TRUE
               /\ activities' = seeded.table
               /\ resp' = Started
    /\ UNCHANGED <<users, usersSeq, completions, compSeq, clock, session, pc, req,
                   uncommitted, histVars, qrVars>>

Serving == tables

----------------------------------------------------------------------------
(* Handlers that touch no table *)

\* GET /app
app_page(b) ==
    /\ Serving /\ pc[b] = "idle"
    /\ resp' = IF require_login(b).raised THEN HttpError("/app", 401)
               ELSE Html("/app", "app.html")
    /\ UNCHANGED <<dbVars, session, pc, req, uncommitted, histVars, qrVars>>

\* GET /scan
scan_page(b) ==
    /\ Serving /\ pc[b] = "idle"
    /\ resp' = IF require_login(b).raised THEN HttpError("/scan", 401)
               ELSE Html("/scan", "scan.html")
    /\ UNCHANGED <<dbVars, session, pc, req, uncommitted, histVars, qrVars>>

\* GET /progress
progress_page(b) ==
    /\ Serving /\ pc[b] = "idle"
    /\ resp' = IF require_login(b).raised THEN HttpError("/progress", 401)
               ELSE Html("/progress", "progress.html")
    /\ UNCHANGED <<dbVars, session, pc, req, uncommitted, histVars, qrVars>>

\* GET /logout
logout(b) ==
    /\ Serving /\ pc[b] = "idle"
    /\ session' = [session EXCEPT ![b] = None]
    /\ resp' = Redirect("/logout", "/register")
    /\ UNCHANGED <<dbVars, pc, req, uncommitted, histVars, qrVars>>

----------------------------------------------------------------------------
(* POST /register and POST /api/scan served to completion, one request at a  *)
(* time                                                                      *)

register(b, rawName, rawEmail) ==
    /\ Serving /\ pc[b] = "idle"
    /\ LET email == Lowered[rawEmail]
           name == Stripped[rawName]
           row == SelectUserByEmail(users, email)
       IN IF row # {}
          THEN LET user_id == (CHOOSE r \in row : TRUE).id
               IN /\ session' = [session EXCEPT ![b] = user_id]
                  /\ regId' = [regId EXCEPT ![Mailbox(rawEmail)] = user_id]
                  /\ resp' = Redirect("/register", "/app")
                  /\ UNCHANGED <<users, usersSeq, clock>>
          ELSE /\ clock < MaxClock
               /\ clock' = clock + 1
               /\ LET ins == InsertUser(users, usersSeq, name, email, clock + 1)
                  IN /\ usersSeq' = ins.seq
                     /\ IF ins.raised
                        THEN /\ resp' = HttpError("/register", 500)
                             /\ UNCHANGED <<users, session, regId>>
                        ELSE LET user_id == (CHOOSE r \in ins.returning : TRUE).id
                             IN /\ users' = ins.table
                                /\ session' = [session EXCEPT ![b] = user_id]
                                /\ regId' = [regId EXCEPT ![Mailbox(rawEmail)] =
                                                user_id]
                                /\ resp' = Redirect("/register", "/app")
    /\ UNCHANGED <<tables, activities, completions, compSeq, pc, req, uncommitted,
                   lastScan, addedLog, qrVars>>

\* history: the scan of code by user_id was answered {ok: true, added, count}
LogScan(user_id, code, added, count) ==
    /\ lastScan' = [lastScan EXCEPT ![user_id] = [code |-> code, count |-> count]]
    /\ addedLog' = IF added THEN addedLog (+) SetToBag({<<user_id, code>>})
                   ELSE addedLog

scan_api(b, raw) ==
    /\ Serving /\ pc[b] = "idle"
    /\ LET login == require_login(b)
           user_id == login.user_id
           code == Stripped[raw]
       IN IF login.raised
          THEN /\ resp' = HttpError("/api/scan", 401)
               /\ UNCHANGED <<completions, compSeq, clock, lastScan, addedLog>>
          ELSE IF ~ValidQr[raw]
          THEN /\ resp' = JsonError("/api/scan", 400, "Invalid QR")
               /\ UNCHANGED <<completions, compSeq, clock, lastScan, addedLog>>
          ELSE IF SelectActivity(activities, code) = {}
          THEN /\ resp' = JsonError("/api/scan", 404, "Unknown activity")
               /\ UNCHANGED <<completions, compSeq, clock, lastScan, addedLog>>
          ELSE /\ clock < MaxClock
               /\ clock' = clock + 1
               /\ LET ins == InsertCompletion(completions, compSeq, user_id, code,
                                              clock + 1)
                      added == ins.returning # {}
                      count == CountCompletions(ins.table, user_id)
                  IN /\ compSeq' = ins.seq
                     /\ IF ins.raised
                        THEN /\ resp' = HttpError("/api/scan", 500)
                             /\ UNCHANGED <<completions, lastScan, addedLog>>
                        ELSE /\ completions' = ins.table
                             /\ resp' = JsonOk("/api/scan", added, count)
                             /\ LogScan(user_id, code, added, count)
    /\ UNCHANGED <<tables, users, usersSeq, activities, session, pc, req,
                   uncommitted, regId, qrVars>>

SeqNext ==
    \/ init_db
    \/ \E b \in Browsers, f \in Forms : register(b, f.name, f.email)
    \/ \E b \in Browsers, c \in RawCodes : scan_api(b, c)
    \/ \E b \in Browsers : app_page(b)
    \/ \E b \in Browsers : scan_page(b)
    \/ \E b \in Browsers : progress_page(b)
    \/ \E b \in Browsers : logout(b)

\* requests are served one after the other
SeqSpec == Init /\ [][SeqNext]_vars

----------------------------------------------------------------------------
(* POST /register, one database statement at a time.  Each browser has at    *)
(* most one request in flight; the requests of different browsers            *)
(* interleave.  psycopg2 opens a transaction at the first execute (READ      *)
(* COMMITTED): a SELECT sees the committed rows; an INSERT waits for an open *)
(* transaction that holds the same unique key and then checks the constraint *)
(* against the committed rows.                                               *)

Goto(b, label) == pc' = [pc EXCEPT ![b] = label]

\* lines 137-142: bind the form fields, normalize
RegisterStart(b, rawName, rawEmail) ==
    /\ Serving /\ pc[b] = "idle"
    /\ req' = [req EXCEPT ![b] = [IdleReq EXCEPT !.op = "register",
                                     !.email = Lowered[rawEmail],
                                     !.mailbox = Mailbox(rawEmail),
                                     !.name = Stripped[rawName]]]
    /\ Goto(b, "reg_select")
    /\ resp' = NoResp
    /\ UNCHANGED <<dbVars, session, uncommitted, histVars, qrVars>>

\* lines 144-148
RegisterSelect(b) ==
    /\ pc[b] = "reg_select"
    /\ LET row == SelectUserByEmail(users, req[b].email)
       IN IF row # {}
          THEN /\ req' = [req EXCEPT ![b].user_id = (CHOOSE r \in row : TRUE).id]
               /\ Goto(b, "reg_session")
          ELSE /\ Goto(b, "reg_insert")
               /\ UNCHANGED req
    /\ resp' = NoResp
    /\ UNCHANGED <<dbVars, session, uncommitted, histVars, qrVars>>

\* lines 150-154: the INSERT; a unique violation is an uncaught exception, the
\* request ends with 500 and its transaction is rolled back
RegisterInsert(b) ==
    /\ pc[b] = "reg_insert"
    /\ clock < MaxClock
    /\ ~UserLockWait(b, req[b].email)
    /\ clock' = clock + 1
    /\ LET ins == InsertUser(users, usersSeq, req[b].name, req[b].email, clock + 1)
       IN /\ usersSeq' = ins.seq
          /\ IF ins.raised
             THEN /\ resp' = HttpError("/register", 500)
                  /\ req' = [req EXCEPT ![b] = IdleReq]
                  /\ Goto(b, "idle")
                  /\ UNCHANGED uncommitted
             ELSE /\ uncommitted' = [uncommitted EXCEPT ![b].users = ins.returning]
                  /\ req' = [req EXCEPT ![b].user_id =
                                (CHOOSE r \in ins.returning : TRUE).id]
                  /\ Goto(b, "reg_commit")
                  /\ resp' = NoResp
    /\ UNCHANGED <<tables, users, activities, completions, compSeq, session,
                   histVars, qrVars>>

\* line 155
RegisterCommit(b) ==
    /\ pc[b] = "reg_commit"
    /\ users' = users \cup uncommitted[b].users
    /\ uncommitted' = [uncommitted EXCEPT ![b] = NoRows]
    /\ Goto(b, "reg_session")
    /\ resp' = NoResp
    /\ UNCHANGED <<tables, usersSeq, activities, completions, compSeq, clock,
                   session, req, histVars, qrVars>>

\* lines 157-161
RegisterSession(b) ==
    /\ pc[b] = "reg_session"
    /\ session' = [session EXCEPT ![b] = req[b].user_id]
    /\ regId' = [regId EXCEPT ![req[b].mailbox] = req[b].user_id]
    /\ resp' = Redirect("/register", "/app")
    /\ req' = [req EXCEPT ![b] = IdleReq]
    /\ Goto(b, "idle")
    /\ UNCHANGED <<dbVars, uncommitted, lastScan, addedLog, qrVars>>

----------------------------------------------------------------------------
(* POST /api/scan, one database statement at a time *)

\* lines 197-202
ScanStart(b, raw) ==
    /\ Serving /\ pc[b] = "idle"
    /\ LET login == require_login(b)
           code == Stripped[raw]
       IN IF login.raised
          THEN /\ resp' = HttpError("/api/scan", 401)
               /\ UNCHANGED <<pc, req>>
          ELSE IF ~ValidQr[raw]
          THEN /\ resp' = JsonError("/api/scan", 400, "Invalid QR")
               /\ UNCHANGED <<pc, req>>
          ELSE /\ req' = [req EXCEPT ![b] = [IdleReq EXCEPT !.op = "scan",
                                               !.user_id = login.user_id,
                                               !.code = code]]
               /\ Goto(b, "scan_select")
               /\ resp' = NoResp
    /\ UNCHANGED <<dbVars, session, uncommitted, histVars, qrVars>>

\* lines 204-211
ScanSelect(b) ==
    /\ pc[b] = "scan_select"
    /\ IF SelectActivity(activities, req[b].code) = {}
       THEN /\ resp' = JsonError("/api/scan", 404, "Unknown activity")
            /\ req' = [req EXCEPT ![b] = IdleReq]
            /\ Goto(b, "idle")
       ELSE /\ Goto(b, "scan_insert")
            /\ resp' = NoResp
            /\ UNCHANGED req
    /\ UNCHANGED <<dbVars, session, uncommitted, histVars, qrVars>>

\* lines 213-218
ScanInsert(b) ==
    /\ pc[b] = "scan_insert"
    /\ clock < MaxClock
    /\ ~CompletionLockWait(b, req[b].user_id, req[b].code)
    /\ clock' = clock + 1
    /\ LET ins == InsertCompletion(completions, compSeq, req[b].user_id,
                                   req[b].code, clock + 1)
       IN /\ compSeq' = ins.seq
          /\ IF ins.raised
             THEN /\ resp' = HttpError("/api/scan", 500)
                  /\ req' = [req EXCEPT ![b] = IdleReq]
                  /\ Goto(b, "idle")
                  /\ UNCHANGED uncommitted
             ELSE /\ uncommitted' =
                        [uncommitted EXCEPT ![b].completions = ins.returning]
                  /\ req' = [req EXCEPT ![b].added = ins.returning # {}]
                  /\ Goto(b, "scan_commit")
                  /\ resp' = NoResp
    /\ UNCHANGED <<tables, users, usersSeq, activities, completions, session,
                   histVars, qrVars>>

\* line 219
ScanCommit(b) ==
    /\ pc[b] = "scan_commit"
    /\ completions' = completions \cup uncommitted[b].completions
    /\ uncommitted' = [uncommitted EXCEPT ![b] = NoRows]
    /\ Goto(b, "scan_count")
    /\ resp' = NoResp
    /\ UNCHANGED <<tables, users, usersSeq, activities, compSeq, clock, session,
                   req, histVars, qrVars>>

\* lines 221-227
ScanCount(b) ==
    /\ pc[b] = "scan_count"
    /\ LET count == CountCompletions(completions, req[b].user_id)
       IN /\ resp' = JsonOk("/api/scan", req[b].added, count)
          /\ LogScan(req[b].user_id, req[b].code, req[b].added, count)
    /\ req' = [req EXCEPT ![b] = IdleReq]
    /\ Goto(b, "idle")
    /\ UNCHANGED <<dbVars, session, uncommitted, regId, qrVars>>

----------------------------------------------------------------------------
Next ==
    \/ init_db
    \/ \E b \in Browsers, f \in RaceForms : RegisterStart(b, f.name, f.email)
    \/ \E b \in Browsers : RegisterSelect(b)
    \/ \E b \in Browsers : RegisterInsert(b)
    \/ \E b \in Browsers : RegisterCommit(b)
    \/ \E b \in Browsers : RegisterSession(b)
    \/ \E b \in Browsers, c \in RaceCodes : ScanStart(b, c)
    \/ \E b \in Browsers : ScanSelect(b)
    \/ \E b \in Browsers : ScanInsert(b)
    \/ \E b \in Browsers : ScanCommit(b)
    \/ \E b \in Browsers : ScanCount(b)
    \/ \E b \in Browsers : app_page(b)
    \/ \E b \in Browsers : scan_page(b)
    \/ \E b \in Browsers : progress_page(b)
    \/ \E b \in Browsers : logout(b)

\* requests interleave at their database statements
Spec == Init /\ [][Next]_vars

----------------------------------------------------------------------------
(* valid_qr on its own: strings within MaxEdits single-character edits of a  *)
(* well-formed code or of the empty string                                   *)

QrAlphabet == {"C", "F", "2", "6", "-", "A", "a", "c", "X", "0", "7", " ", "\n"}

QrSeeds == {<<>>} \cup {QR_PREFIX \o <<"A", d1, d2>> : d1, d2 \in {"0", "7"}}

QrInit ==
    /\ InitStore
    /\ qrIn \in QrSeeds
    /\ qrEdits = 0
    /\ qrOut = valid_qr(qrIn)

QrCall(s) ==
    /\ qrEdits < MaxEdits
    /\ qrEdits' = qrEdits + 1
    /\ qrIn' = s
    /\ qrOut' = valid_qr(s)
    /\ UNCHANGED <<dbVars, session, pc, req, uncommitted, resp, histVars>>

QrInsert ==
    \E i \in 0..Len(qrIn), ch \in QrAlphabet :
        QrCall(SubSeq(qrIn, 1, i) \o <<ch>> \o SubSeq(qrIn, i + 1, Len(qrIn)))

QrDelete ==
    \E i \in 1..Len(qrIn) :
        QrCall(SubSeq(qrIn, 1, i - 1) \o SubSeq(qrIn, i + 1, Len(qrIn)))

QrReplace ==
    \E i \in 1..Len(qrIn) : \E ch \in QrAlphabet \ {qrIn[i]} :
        QrCall([qrIn EXCEPT ![i] = ch])

QrNext == QrInsert \/ QrDelete \/ QrReplace

QrSpec == QrInit /\ [][QrNext]_vars

----------------------------------------------------------------------------
(* What the properties are measured against, written without the operators  *)
(* of the model                                                              *)

AsciiDigits == {"0", "1", "2", "3", "4", "5", "6", "7", "8", "9"}
Blank == {" ", "\t", "\n", "\r", "\f"}

\* exactly the 8 characters CF26-A and two digits
IsExactCode(s) ==
    /\ Len(s) = 8
    /\ s[1] = "C" /\ s[2] = "F" /\ s[3] = "2" /\ s[4] = "6" /\ s[5] = "-"
    /\ s[6] = "A"
    /\ s[7] \in AsciiDigits
    /\ s[8] \in AsciiDigits

\* s without its leading and trailing blanks
TrimmedOf(s) ==
    LET solid == {i \in 1..Len(s) : s[i] \notin Blank}
    IN IF solid = {} THEN <<>>
       ELSE SubSeq(s, CHOOSE i \in solid : \A j \in solid : i <= j,
                      CHOOSE i \in solid : \A j \in solid : i >= j)

\* the trimmed form of each code that is submitted
Trimmed == [raw \in RawCodes |-> TrimmedOf(raw)]

\* CF26-A01 .. CF26-A50
ExpectedCodes ==
    {<<"C", "F", "2", "6", "-", "A", DigitChars[(n \div 10) + 1],
       DigitChars[(n % 10) + 1]>> : n \in 1..50}

RowsOf(tbl, u) == {r \in tbl : r.user_id = u}
Completed(tbl, u, c) == \E r \in tbl : r.user_id = u /\ r.activity_code = c

ScanAnswer(added, count) ==
    [route |-> "/api/scan", status |-> 200, kind |-> "json", ok |-> TRUE,
     added |-> added, count |-> count, total |-> 50, text |-> ""]

ScanRefusal(status, text) ==
    [route |-> "/api/scan", status |-> status, kind |-> "json", ok |-> FALSE,
     added |-> FALSE, count |-> 0, total |-> 0, text |-> text]

Is401(r) == r.status = 401 /\ r.kind = "exception"

----------------------------------------------------------------------------
(* C1: with requests served one after the other, a scan by a logged-in user  *)
(* u of a seeded code c that u has not completed is answered {ok: true,      *)
(* added: true, count: N+1, total: 50} and adds one row; a scan by u of the  *)
(* code of u's previous successful scan is answered {ok: true, added: false, *)
(* count: the count of that previous answer, total: 50} and adds no row.     *)
C1_ScanTwice ==
    [][resp'.route = "/api/scan" =>
         \A b \in Browsers, raw \in RawCodes :
            (scan_api(b, raw) /\ session[b] # None
                              /\ Trimmed[raw] \in ExpectedCodes) =>
               LET u == session[b]
                   c == Trimmed[raw]
                   N == Cardinality(RowsOf(completions, u))
               IN /\ ~Completed(completions, u, c) =>
                        /\ resp' = ScanAnswer(TRUE, N + 1)
                        /\ Cardinality(completions') = Cardinality(completions) + 1
                  /\ lastScan[u].code = c =>
                        /\ resp' = ScanAnswer(FALSE, lastScan[u].count)
                        /\ completions' = completions]_vars

\* a user with one earlier completion scanned a second code twice in a row: the
\* second answer is added: false, count: 2
C1_Witness ==
    /\ resp = ScanAnswer(FALSE, 2)
    /\ \E u \in UserIds : lastScan[u].count = 2 /\ Cardinality(RowsOf(completions, u)) = 2

(* C2: when scans of one (user, code) pair by two browsers interleave, at    *)
(* most one of them is ever answered added: true, none ends in an error,     *)
(* the pair has at most one row, and once the request that inserted the row  *)
(* has answered, exactly one added: true has been reported for the pair.     *)
C2_ConcurrentScans ==
    /\ \A pair \in BagToSet(addedLog) :
          /\ CopiesIn(pair, addedLog) = 1
          /\ Completed(completions, pair[1], pair[2])
    /\ \A r1, r2 \in completions :
          (r1.user_id = r2.user_id /\ r1.activity_code = r2.activity_code) => r1 = r2
    /\ resp.route = "/api/scan" => resp.status \in {0, 200, 400, 401, 404}
    /\ \A r \in completions :
          \/ BagIn(<<r.user_id, r.activity_code>>, addedLog)
          \/ \E b \in Browsers : /\ pc[b] = "scan_count"
                                 /\ req[b].added
                                 /\ req[b].user_id = r.user_id
                                 /\ req[b].code = r.activity_code

\* both browsers, logged in as the same user, are past the INSERT and the commit
\* of the same code at once: one is about to answer added: true, the other false
C2_Witness ==
    \E b, q \in Browsers :
       /\ b # q
       /\ pc[b] = "scan_count" /\ pc[q] = "scan_count"
       /\ req[b].user_id = req[q].user_id /\ req[b].code = req[q].code
       /\ req[b].added /\ ~req[q].added
       /\ Cardinality(completions) = 1

(* C3: with requests served one after the other, a register whose address    *)
(* belongs to a mailbox that an earlier register already bound gives the     *)
(* session that same user id and leaves the users table as it was; the first *)
(* register of a mailbox adds one row; no step changes or removes a row.     *)
C3_RegisterTwice ==
    [][/\ users \subseteq users'
       /\ resp'.route = "/register" =>
            \A b \in Browsers, f \in Forms :
               register(b, f.name, f.email) =>
                  LET m == Mailbox(f.email)
                  IN /\ resp'.status = 303
                     /\ regId[m] # None =>
                           /\ session'[b] = regId[m]
                           /\ users' = users
                     /\ regId[m] = None =>
                           /\ Cardinality(users') = Cardinality(users) + 1
                           /\ \E r \in users' \ users : session'[b] = r.id]_vars

\* both browsers registered the same mailbox (with different names and
\* differently typed addresses): one row, both sessions bound to its id
C3_Witness ==
    /\ resp.route = "/register"
    /\ Cardinality(users) = 1
    /\ \E r \in users : \A b \in Browsers : session[b] = r.id
    /\ \E r \in users : r.name = <<"B", "o">>

(* C4: when two registers of one unregistered mailbox interleave, neither    *)
(* ends in an error and the mailbox has one user row.                        *)
C4_ConcurrentRegister ==
    /\ resp.route = "/register" => resp.status = 303
    /\ \A r1, r2 \in users : r1.email = r2.email => r1 = r2

(* C5: with an authenticated session, a scan whose trimmed code is not       *)
(* CF26-A and two digits is answered 400 "Invalid QR"; otherwise, if the     *)
(* code is none of CF26-A01..CF26-A50, 404 "Unknown activity"; neither       *)
(* changes a table.                                                          *)
C5_ScanErrors ==
    [][resp'.route = "/api/scan" =>
         \A b \in Browsers, raw \in RawCodes :
            (scan_api(b, raw) /\ session[b] # None) =>
               LET c == Trimmed[raw]
               IN /\ ~IsExactCode(c) =>
                        /\ resp' = ScanRefusal(400, "Invalid QR")
                        /\ UNCHANGED <<completions, users, activities>>
                  /\ (IsExactCode(c) /\ c \notin ExpectedCodes) =>
                        /\ resp' = ScanRefusal(404, "Unknown activity")
                        /\ UNCHANGED <<completions, users, activities>>]_vars

\* a logged-in user who has completions was just answered 404
C5_Witness ==
    /\ resp = ScanRefusal(404, "Unknown activity")
    /\ completions # {}

(* C6: a request to /app, /scan, /progress or /api/scan on a session without *)
(* a user id is answered 401 and changes no table, whatever the code; only a *)
(* successful register gives a session a user id; logout removes it.         *)
C6_LoginRequired ==
    [][\A b \in Browsers :
          /\ session[b] = None =>
                /\ (app_page(b) \/ scan_page(b) \/ progress_page(b)) =>
                      Is401(resp') /\ UNCHANGED dbVars
                /\ resp'.route = "/api/scan" =>
                      \A raw \in RawCodes :
                         scan_api(b, raw) => Is401(resp') /\ UNCHANGED dbVars
          /\ (session[b] = None /\ session'[b] # None) =>
                resp'.route = "/register" /\ resp'.status = 303
          /\ logout(b) => session'[b] = None]_vars

\* users exist, every session has been logged out, and a scan was just refused
C6_Witness ==
    /\ resp.route = "/api/scan" /\ Is401(resp)
    /\ users # {}
    /\ \A b \in Browsers : session[b] = None

(* C7: valid_qr(s) is true exactly when s is the 8 characters CF26-A and two *)
(* digits.                                                                   *)
C7_ValidQrExact == qrOut = IsExactCode(qrIn)

(* C8: in every state of every interleaving, each completion row carries the *)
(* code of a seeded activity, no two rows share (user_id, activity_code),    *)
(* and no user has more than 50 rows.                                        *)
C8_CompletionInvariants ==
    /\ \A r \in completions :
          /\ r.activity_code \in ExpectedCodes
          /\ r.activity_code \in DOMAIN activities
    /\ \A r1, r2 \in completions :
          (r1.user_id = r2.user_id /\ r1.activity_code = r2.activity_code) => r1 = r2
    /\ \A u \in UserIds : Cardinality(RowsOf(completions, u)) <= 50

\* two completions are stored and a third INSERT met the uniqueness constraint
C8_Witness ==
    /\ Cardinality(completions) = 2
    /\ compSeq = 3

(* C9: every run of the startup seeding returns without an error and leaves  *)
(* exactly the 50 activities CF26-A01..CF26-A50, the rows that existed,      *)
(* the users and the completions unchanged; no other step changes the        *)
(* activities table.                                                         *)
C9_SeedingIdempotent ==
    [][/\ resp'.kind = "startup" =>
             /\ resp' = [NoResp EXCEPT !.kind = "startup"]
             /\ DOMAIN activities' = ExpectedCodes
             /\ Cardinality(DOMAIN activities') = 50
             /\ \A c \in DOMAIN activities : activities'[c] = activities[c]
             /\ UNCHANGED <<users, completions>>
       /\ activities' # activities => init_db]_vars

\* the seeding just ran on a store that already held users and completions
C9_Witness ==
    /\ resp.kind = "startup"
    /\ users # {}
    /\ completions # {}

(* C10: a scan by user u of code c adds at most the one row (u, c), changes  *)
(* or removes no row, and leaves users and activities as they were; no step  *)
(* at all changes or removes a completion row.                               *)
C10_ScanFrame ==
    [][/\ completions \subseteq completions'
       /\ resp'.route = "/api/scan" =>
            \A b \in Browsers, raw \in RawCodes :
               scan_api(b, raw) =>
                  /\ Cardinality(completions' \ completions) <= 1
                  /\ \A r \in completions' \ completions :
                        r.user_id = session[b] /\ r.activity_code = Trimmed[raw]
                  /\ UNCHANGED <<users, activities>>]_vars

\* a scan just added a row for one user while another user's row is stored
C10_Witness ==
    /\ resp.route = "/api/scan" /\ resp.added
    /\ \E r1, r2 \in completions : r1.user_id # r2.user_id

====
